---- MODULE Spec2Model ----
(***************************************************************************)
(* Model of scripts/motviz/motvizpy/stats.py: the conservation-scoring and *)
(* motif-detection pipeline of class Analysis and its driver main().       *)
(*                                                                         *)
(* Floating-point values are modelled as exact fractions num/den in lowest *)
(* terms with den > 0; the record with den = 0 is NaN.  np.log2 is        *)
(* modelled as a binary logarithm truncated to LogBits fractional bits.    *)
(* Arrays are sequences; Python index k is TLA+ index k + 1.               *)
(***************************************************************************)
EXTENDS Integers, Sequences, FiniteSets

VARIABLES pc, seq, np_seq, c_ent, norm_data, n, avg_data, minima,
          threshold, pos_motif, pos

vars == <<pc, seq, np_seq, c_ent, norm_data, n, avg_data, minima,
          threshold, pos_motif, pos>>

---------------------------------------------------------------------------
(* Floating-point arithmetic *)

Abs(x) == IF x < 0 THEN -x ELSE x

RECURSIVE GCD(_, _)
GCD(a, b) == IF b = 0 THEN a ELSE GCD(b, a % b)

LCM(a, b) == (a \div GCD(a, b)) * b

NaN == [num |-> 0, den |-> 0]

IsNaN(a) == a.den = 0

\* the fraction p/q, q > 0, in lowest terms
Frac(p, q) ==
    LET g == GCD(Abs(p), q)
    IN  [num |-> p \div g, den |-> q \div g]

FromInt(i) == [num |-> i, den |-> 1]

FAdd(a, b) ==
    IF IsNaN(a) \/ IsNaN(b) THEN NaN
    ELSE LET l == LCM(a.den, b.den)
         IN  Frac(a.num * (l \div a.den) + b.num * (l \div b.den), l)

FNeg(a) == IF IsNaN(a) THEN NaN ELSE [num |-> -a.num, den |-> a.den]

FSub(a, b) == FAdd(a, FNeg(b))

FMul(a, b) ==
    IF IsNaN(a) \/ IsNaN(b) THEN NaN
    ELSE LET g1 == GCD(Abs(a.num), b.den)
             g2 == GCD(Abs(b.num), a.den)
         IN  Frac((a.num \div g1) * (b.num \div g2), (a.den \div g2) * (b.den \div g1))

\* a / b; 0/0 is NaN (numpy warns and carries on).  A non-zero value is
\* never divided by zero in this program: the only divisor that can be
\* zero is ptp(ent_list), and then every numerator is zero as well.
FDiv(a, b) ==
    IF IsNaN(a) \/ IsNaN(b) \/ b.num = 0 THEN NaN
    ELSE IF b.num > 0 THEN FMul(a, [num |-> b.den, den |-> b.num])
    ELSE FMul(a, [num |-> -b.den, den |-> -b.num])

\* a < b; every comparison with NaN is False
FLess(a, b) == ~IsNaN(a) /\ ~IsNaN(b) /\ a.num * b.den < b.num * a.den

FLeq(a, b) == ~IsNaN(a) /\ ~IsNaN(b) /\ a.num * b.den <= b.num * a.den

---------------------------------------------------------------------------
(* np.log2 *)

LogBits == 8

MantBits == 14

Pow2(k) == 2 ^ k

\* scale a/b by powers of two into [1, 2): <<a', b', e>> with
\* a/b = (a'/b') * 2^e
RECURSIVE Scale2(_, _, _)
Scale2(a, b, e) ==
    IF a < b THEN Scale2(2 * a, b, e - 1)
    ELSE IF a >= 2 * b THEN Scale2(a, 2 * b, e + 1)
    ELSE <<a, b, e>>

\* the first k fractional bits of log2(x / 2^MantBits), 1 <= x/2^MantBits < 2,
\* by repeated squaring
RECURSIVE LogFrac(_, _, _)
LogFrac(x, k, acc) ==
    IF k = 0 THEN acc
    ELSE LET sq == (x * x) \div Pow2(MantBits)
         IN  IF sq >= Pow2(MantBits + 1)
             THEN LogFrac(sq \div 2, k - 1, 2 * acc + 1)
             ELSE LogFrac(sq, k - 1, 2 * acc)

\* log2 of a positive value
Log2(a) ==
    LET s == Scale2(a.num, a.den, 0)
        x == (s[1] * Pow2(MantBits)) \div s[2]
    IN  Frac(s[3] * Pow2(LogBits) + LogFrac(x, LogBits, 0), Pow2(LogBits))

---------------------------------------------------------------------------
(* Arrays *)

Range(s) == {s[i] : i \in 1..Len(s)}

RECURSIVE SumTo(_, _)
SumTo(s, k) == IF k = 0 THEN FromInt(0) ELSE FAdd(SumTo(s, k - 1), s[k])

\* np.cumsum(data, dtype=float)
CumSum(s) == [i \in 1..Len(s) |-> SumTo(s, i)]

\* np.min
RECURSIVE MinTo(_, _)
MinTo(s, k) ==
    IF k = 1 THEN s[1]
    ELSE LET m == MinTo(s, k - 1)
         IN  IF IsNaN(m) \/ IsNaN(s[k]) THEN NaN
             ELSE IF FLess(s[k], m) THEN s[k] ELSE m

RECURSIVE MaxTo(_, _)
MaxTo(s, k) ==
    IF k = 1 THEN s[1]
    ELSE LET m == MaxTo(s, k - 1)
         IN  IF IsNaN(m) \/ IsNaN(s[k]) THEN NaN
             ELSE IF FLess(m, s[k]) THEN s[k] ELSE m

np_min(s) == MinTo(s, Len(s))

\* np.ptp: maximum minus minimum
np_ptp(s) == FSub(MaxTo(s, Len(s)), MinTo(s, Len(s)))

\* np.mean
np_mean(s) == FDiv(SumTo(s, Len(s)), FromInt(Len(s)))

\* Python slice s[lo:hi] for 0 <= lo, 0 <= hi: indices clipped to the length
Slice(s, lo, hi) ==
    LET h == IF hi > Len(s) THEN Len(s) ELSE hi
    IN  IF lo >= h THEN <<>> ELSE [k \in 1..(h - lo) |-> s[lo + k]]

---------------------------------------------------------------------------
(* class Analysis *)

Symbols == {"A", "T"}

Ragged(s) == \E i, j \in 1..Len(s) : Len(s[i]) # Len(s[j])

\* a matrix of the right shape that repeats the first row
seq2np_first_row(s) == [i \in 1..Len(s) |-> [j \in 1..Len(s[i]) |-> s[1][j]]]

\* np.asarray(self.seq, dtype='S1') on rows of equal length: one byte per
\* single-character element, row i and column j kept in place
seq2np_array(s) == [i \in 1..Len(s) |-> [j \in 1..Len(s[i]) |-> s[i][j]]]

\* column j of the matrix, the array np.apply_along_axis hands to _shannon
Column(m, j) == [i \in 1..Len(m) |-> m[i][j]]

\* Counter(array): symbol -> number of occurrences
Counter(array) ==
    [k \in Range(array) |-> Cardinality({i \in 1..Len(array) : array[i] = k})]

\* pA = 1; for k, v in aa_count.items(): pA *= (v / 5)
RECURSIVE ProbProduct(_, _)
ProbProduct(aa_count, keys) ==
    IF keys = {} THEN FromInt(1)
    ELSE LET k == CHOOSE x \in keys : TRUE
         IN  FMul(ProbProduct(aa_count, keys \ {k}),
                  FDiv(FromInt(aa_count[k]), FromInt(5)))

\* the sign of the entropy dropped
EntropyUnsigned(pA) == FMul(pA, Log2(pA))

\* -np.sum(pA*np.log2(pA))
Entropy(pA) == FNeg(FMul(pA, Log2(pA)))

shannon(array) ==
    LET aa_count == Counter(array)
    IN  Entropy(ProbProduct(aa_count, DOMAIN aa_count))

\* np.apply_along_axis(self._shannon, 0, np_seq)
conservation_score_of(m) == [j \in 1..Len(m[1]) |-> shannon(Column(m, j))]

\* the range taken as the maximum instead of maximum - minimum
normalize_by_max(ent_list) ==
    LET lo == np_min(ent_list)
        hi == MaxTo(ent_list, Len(ent_list))
    IN  [k \in 1..Len(ent_list) |->
            FSub(FDiv(FMul(FromInt(2), FSub(ent_list[k], lo)), hi), FromInt(1))]

\* 2.*(ent_list - np.min(ent_list))/np.ptp(ent_list) - 1, element-wise
normalize_data_of(ent_list) ==
    LET lo  == np_min(ent_list)
        ptp == np_ptp(ent_list)
    IN  [k \in 1..Len(ent_list) |->
            FSub(FDiv(FMul(FromInt(2), FSub(ent_list[k], lo)), ptp), FromInt(1))]

\* the result cut at avg_data[w:] instead of avg_data[w - 1:]
moving_average_late(data, w) ==
    LET cs   == CumSum(data)
        avg  == [i \in 1..Len(data) |->
                    IF i > w THEN FSub(cs[i], cs[i - w]) ELSE cs[i]]
        tail == Slice(avg, w, Len(avg))
    IN  [i \in 1..Len(tail) |-> FDiv(tail[i], FromInt(w))]

\* avg_data = np.cumsum(data); avg_data[w:] = avg_data[w:] - avg_data[:-w];
\* return avg_data[w - 1:] / w            (w is the parameter n, w >= 1)
moving_average_of(data, w) ==
    LET cs   == CumSum(data)
        avg  == [i \in 1..Len(data) |->
                    IF i > w THEN FSub(cs[i], cs[i - w]) ELSE cs[i]]
        tail == Slice(avg, w - 1, Len(avg))
    IN  [i \in 1..Len(tail) |-> FDiv(tail[i], FromInt(w))]

\* data.take(i, mode='clip') for Python index i
TakeClip(data, i) ==
    IF i < 0 THEN data[1]
    ELSE IF i > Len(data) - 1 THEN data[Len(data)]
    ELSE data[i + 1]

\* the comparator np.less_equal instead of np.less
argrelextrema_less_equal(data) ==
    LET locs == [i \in 1..Len(data) |-> i - 1]
        Hit(i) == /\ FLeq(TakeClip(data, i), TakeClip(data, i + 1))
                  /\ FLeq(TakeClip(data, i), TakeClip(data, i - 1))
    IN  SelectSeq(locs, Hit)

\* argrelextrema(data, np.less): order 1, mode 'clip'; the Python indices
\* where data is less than both shifted copies, ascending
argrelextrema_less(data) ==
    LET locs == [i \in 1..Len(data) |-> i - 1]
        Hit(i) == /\ FLess(TakeClip(data, i), TakeClip(data, i + 1))
                  /\ FLess(TakeClip(data, i), TakeClip(data, i - 1))
    IN  SelectSeq(locs, Hit)

find_local_minima_of(data) ==
    LET local_minima == argrelextrema_less(data)
        data_mean    == np_mean(data)
        Below(j)     == FLess(data[j + 1], data_mean)
    IN  SelectSeq(local_minima, Below)

\* np.all(motif_stretch < threshold)
AllBelow(stretch, thr) == \A k \in 1..Len(stretch) : FLess(stretch[k], thr)

\* the guard off by one
FarEnoughInclusive(i) == i - 4 >= 0

\* if i - 4 > 0
FarEnough(i) == i - 4 > 0

\* the last value of the stretch taken instead of the first
RepresentativeLast(motif_stretch) == motif_stretch[Len(motif_stretch)]

\* motif_stretch[0]
Representative(motif_stretch) == motif_stretch[1]

\* the loop of find_motif over the first k entries of the minima list
RECURSIVE MotifLoop(_, _, _, _)
MotifLoop(data, mins, thr, k) ==
    IF k = 0 THEN [pos_motif |-> <<>>, pos |-> <<>>]
    ELSE LET acc == MotifLoop(data, mins, thr, k - 1)
             i   == mins[k]
             motif_stretch == Slice(data, i - 1, i + 1)
         IN  IF FarEnough(i) /\ AllBelow(motif_stretch, thr)
             THEN [pos_motif |-> Append(acc.pos_motif, Representative(motif_stretch)),
                   pos       |-> Append(acc.pos, i)]
             ELSE acc

find_motif_of(data, mins, thr) == MotifLoop(data, mins, thr, Len(mins))

---------------------------------------------------------------------------
(* Inputs *)

MaxSeqs == 3

MaxCols == 2

LongCols == 9

MaxLen == 5

MaxValue == 3

MotifLen == 7

MaxMinima == 2

Row(l) == [1..l -> Symbols]

SmallRows == UNION {Row(l) : l \in 1..MaxCols}

\* alignments as main() builds them: a list of lists of characters; the
\* rows of a malformed input need not have one length
SmallAlignments == UNION {[1..k -> SmallRows] : k \in 1..MaxSeqs}

\* a fully conserved sequence against every sequence of the same length
LongAlignments == {<<[j \in 1..LongCols |-> "A"], r>> : r \in Row(LongCols)}

Identical3 == [i \in 1..3 |-> <<"A", "A", "A", "A">>]

Staircase ==
    << <<"A", "A", "A", "A", "A">>,
       <<"A", "A", "A", "A", "T">>,
       <<"A", "A", "A", "T", "T">>,
       <<"A", "A", "T", "T", "T">>,
       <<"A", "T", "T", "T", "T">> >>

Alignments == SmallAlignments \cup LongAlignments \cup {Identical3, Staircase}

\* the halves 0, 1/2, 1, ..., MaxValue/2
Values == {Frac(v, 2) : v \in 0..MaxValue}

Arrays == UNION {[1..l -> Values] : l \in 1..MaxLen}

MotifValues == {FromInt(3), FromInt(4)}

Thresholds == {FromInt(4), FromInt(5)}

\* score 3 everywhere except the listed Python indices
Spiked(len, at, v) == [k \in 1..len |-> IF (k - 1) \in at THEN v ELSE FromInt(3)]

MinimaLists(len) ==
    UNION {[1..k -> 0..(len - 1)] : k \in 0..MaxMinima}

\* <<data, minima>>: every short array with every list of its indices, and
\* arrays of 31 scores with the minima 10, 20, 30
MotifInputs ==
    ([1..MotifLen -> MotifValues] \X MinimaLists(MotifLen))
        \cup ({Spiked(31, at, v) : at \in SUBSET {19, 29, 30},
                                   v \in {FromInt(4), FromInt(6)}}
                \X {<<10, 20, 30>>})

---------------------------------------------------------------------------
(* main() *)

Unset == <<>>

Init ==
    /\ pc = "seq2np"
    /\ seq \in Alignments
    /\ np_seq = Unset
    /\ c_ent = Unset
    /\ norm_data = Unset
    /\ n = 3
    /\ avg_data = Unset
    /\ minima = Unset
    /\ threshold = FromInt(4)
    /\ pos_motif = Unset
    /\ pos = Unset

\* c.seq2np(): numpy refuses rows of unequal length with a ValueError,
\* which main() does not catch
seq2np ==
    /\ pc = "seq2np"
    /\ IF Ragged(seq)
       THEN pc' = "ValueError" /\ np_seq' = np_seq
       ELSE pc' = "conservation_score" /\ np_seq' = seq2np_array(seq)
    /\ UNCHANGED <<seq, c_ent, norm_data, n, avg_data, minima, threshold,
                   pos_motif, pos>>

conservation_score ==
    /\ pc = "conservation_score"
    /\ c_ent' = conservation_score_of(np_seq)
    /\ pc' = "normalize_data"
    /\ UNCHANGED <<seq, np_seq, norm_data, n, avg_data, minima, threshold,
                   pos_motif, pos>>

normalize_data ==
    /\ pc = "normalize_data"
    /\ norm_data' = normalize_data_of(c_ent)
    /\ pc' = "moving_average"
    /\ UNCHANGED <<seq, np_seq, c_ent, n, avg_data, minima, threshold,
                   pos_motif, pos>>

\* main() rebinds norm_data to the smoothed array; the model keeps the
\* smoothed array in avg_data
moving_average ==
    /\ pc = "moving_average"
    /\ avg_data' = moving_average_of(norm_data, n)
    /\ pc' = "find_local_minima"
    /\ UNCHANGED <<seq, np_seq, c_ent, norm_data, n, minima, threshold,
                   pos_motif, pos>>

find_local_minima ==
    /\ pc = "find_local_minima"
    /\ minima' = find_local_minima_of(avg_data)
    /\ pc' = "find_motif"
    /\ UNCHANGED <<seq, np_seq, c_ent, norm_data, n, avg_data, threshold,
                   pos_motif, pos>>

\* c.find_motif(norm_data, minima, 4), the last call of the scoring pipeline
find_motif ==
    /\ pc = "find_motif"
    /\ LET r == find_motif_of(avg_data, minima, threshold)
       IN  pos_motif' = r.pos_motif /\ pos' = r.pos
    /\ pc' = "done"
    /\ UNCHANGED <<seq, np_seq, c_ent, norm_data, n, avg_data, minima,
                   threshold>>

Next ==
    \/ seq2np
    \/ conservation_score
    \/ normalize_data
    \/ moving_average
    \/ find_local_minima
    \/ find_motif

Spec == Init /\ [][Next]_vars

---------------------------------------------------------------------------
(* The methods of Analysis called on their own *)

InitNormalize ==
    /\ pc = "normalize_data"
    /\ c_ent \in Arrays
    /\ seq = Unset /\ np_seq = Unset /\ norm_data = Unset /\ n = 3
    /\ avg_data = Unset /\ minima = Unset /\ threshold = FromInt(4)
    /\ pos_motif = Unset /\ pos = Unset

SpecNormalize == InitNormalize /\ [][normalize_data]_vars

InitSmooth ==
    /\ pc = "moving_average"
    /\ norm_data \in Arrays
    /\ n \in 1..(MaxLen + 1)
    /\ seq = Unset /\ np_seq = Unset /\ c_ent = Unset
    /\ avg_data = Unset /\ minima = Unset /\ threshold = FromInt(4)
    /\ pos_motif = Unset /\ pos = Unset

SpecSmooth == InitSmooth /\ [][moving_average]_vars

InitMinima ==
    /\ pc = "find_local_minima"
    /\ avg_data \in Arrays
    /\ seq = Unset /\ np_seq = Unset /\ c_ent = Unset /\ norm_data = Unset
    /\ n = 3 /\ minima = Unset /\ threshold = FromInt(4)
    /\ pos_motif = Unset /\ pos = Unset

SpecMinima == InitMinima /\ [][find_local_minima]_vars

InitMotif ==
    /\ pc = "find_motif"
    /\ \E input \in MotifInputs : avg_data = input[1] /\ minima = input[2]
    /\ threshold \in Thresholds
    /\ seq = Unset /\ np_seq = Unset /\ c_ent = Unset /\ norm_data = Unset
    /\ n = 3 /\ pos_motif = Unset /\ pos = Unset

SpecMotif == InitMotif /\ [][find_motif]_vars

---------------------------------------------------------------------------
(* Properties *)

Scored == pc \in {"normalize_data", "moving_average", "find_local_minima",
                  "find_motif", "done"}

\* the product, over the distinct symbols of a column, of count / height
RECURSIVE ColumnProbability(_, _)
ColumnProbability(array, keys) ==
    IF keys = {} THEN FromInt(1)
    ELSE LET k == CHOOSE x \in keys : TRUE
             v == Cardinality({i \in 1..Len(array) : array[i] = k})
         IN  FMul(ColumnProbability(array, keys \ {k}), Frac(v, Len(array)))

\* twice a value of Values, an integer
Twice(x) == x.num * (2 \div x.den)

Doubled(s) == {Twice(s[k]) : k \in 1..Len(s)}

Lowest(s) == CHOOSE m \in Doubled(s) : \A y \in Doubled(s) : m <= y

Highest(s) == CHOOSE m \in Doubled(s) : \A y \in Doubled(s) : m >= y

InUnit(x) == FLeq(FromInt(-1), x) /\ FLeq(x, FromInt(1))

RECURSIVE WindowSum(_, _, _)
WindowSum(s, i, w) ==
    IF w = 0 THEN 0 ELSE Twice(s[i + w - 1]) + WindowSum(s, i, w - 1)

Ascending(s) == \A k \in 1..(Len(s) - 1) : s[k] < s[k + 1]

\* C1: the score of every column j is -P*log2(P) with P the product, over
\* the distinct symbols of the column, of count / N, N the number of
\* sequences of the alignment.
ScoreDividesByHeight ==
    Scored =>
        \A j \in 1..Len(c_ent) :
            LET col == Column(np_seq, j)
            IN  c_ent[j] = Entropy(ColumnProbability(col, Range(col)))

\* C2 as stated: for the five sequences AAAAA, AAAAT, AAATT, AATTT, ATTTT
\* the scores are non-decreasing from column 0 to column 4, column 0 scores
\* 0 and column 4 has the highest score.
StaircaseNonDecreasing ==
    (Scored /\ seq = Staircase) =>
        /\ c_ent[1] = FromInt(0)
        /\ \A j \in 1..4 : FLeq(c_ent[j], c_ent[j + 1])
        /\ \A j \in 1..5 : FLeq(c_ent[j], c_ent[5])

\* C2 amended: for those five sequences column 0 scores 0, the scores rise
\* strictly from column 0 to column 2, columns 2 and 3 share the highest
\* score, and column 4 scores the same as column 1, below column 3.
StaircaseRisesThenFalls ==
    (Scored /\ seq = Staircase) =>
        /\ Len(c_ent) = 5
        /\ c_ent[1] = FromInt(0)
        /\ FLess(c_ent[1], c_ent[2])
        /\ FLess(c_ent[2], c_ent[3])
        /\ c_ent[4] = c_ent[3]
        /\ c_ent[5] = c_ent[2]
        /\ FLess(c_ent[5], c_ent[4])

StaircaseScored == pc = "normalize_data" /\ seq = Staircase

\* C9: seq2np on sequences of unequal length fails at that stage: no matrix
\* is built and no later stage runs; on N sequences of equal length L the
\* matrix is N x L and column j holds the symbol each sequence has at j.
RaggedStopsAtMatrix ==
    /\ (Ragged(seq) /\ pc # "seq2np") =>
            /\ pc = "ValueError"
            /\ np_seq = Unset /\ c_ent = Unset /\ norm_data = Unset
            /\ avg_data = Unset /\ minima = Unset
            /\ pos_motif = Unset /\ pos = Unset
    /\ (~Ragged(seq) /\ pc # "seq2np") =>
            /\ Len(np_seq) = Len(seq)
            /\ \A i \in 1..Len(seq) : Len(np_seq[i]) = Len(seq[1])
            /\ \A j \in 1..Len(seq[1]) : \A i \in 1..Len(seq) :
                    Column(np_seq, j)[i] = seq[i][j]

RaggedRefused == pc = "ValueError" /\ Ragged(seq) /\ Len(seq) = 3

\* C10: in the order main() uses, every smoothed value lies in [-1, 1], so
\* the threshold 4 excludes nothing: the positions returned are exactly the
\* polished minima i with i - 4 > 0.
ThresholdExcludesNothing ==
    pc = "done" =>
        /\ \A k \in 1..Len(avg_data) : InUnit(avg_data[k])
        /\ LET Far(i) == i - 4 > 0 IN pos = SelectSeq(minima, Far)

\* C3: normalize_data on a sequence whose maximum equals its minimum fails
\* with a DegenerateRangeError and returns no sequence, in particular no
\* sequence of NaN.
ConstantRangeRejected ==
    (pc # "normalize_data" /\ Highest(c_ent) = Lowest(c_ent)) =>
        /\ pc = "DegenerateRangeError"
        /\ norm_data = Unset

\* C4: when the maximum differs from the minimum, normalize_data returns a
\* sequence of the same length whose element k is
\* 2*(x[k] - min)/(max - min) - 1; the minimum maps to -1, the maximum to 1,
\* and every value lies in [-1, 1].
NormalizeOntoUnitRange ==
    (pc = "moving_average" /\ Highest(c_ent) # Lowest(c_ent)) =>
        LET lo == Lowest(c_ent)
            hi == Highest(c_ent)
        IN  /\ Len(norm_data) = Len(c_ent)
            /\ \A k \in 1..Len(c_ent) :
                LET x == Twice(c_ent[k])
                IN  /\ norm_data[k] = Frac(2 * (x - lo) - (hi - lo), hi - lo)
                    /\ x = lo => norm_data[k] = FromInt(-1)
                    /\ x = hi => norm_data[k] = FromInt(1)
                    /\ InUnit(norm_data[k])

NormalizedInterior ==
    /\ pc = "moving_average"
    /\ \E k \in 1..Len(c_ent) :
            /\ Twice(c_ent[k]) # Lowest(c_ent)
            /\ Twice(c_ent[k]) # Highest(c_ent)

\* C5: for 1 <= n <= L moving_average returns L - n + 1 values, value i the
\* arithmetic mean of input[i .. i+n-1]; for n = 1 the output is the input,
\* and a constant input gives the same constant.
SmoothIsWindowMean ==
    (pc = "find_local_minima" /\ n <= Len(norm_data)) =>
        /\ Len(avg_data) = Len(norm_data) - n + 1
        /\ \A i \in 1..Len(avg_data) :
                avg_data[i] = Frac(WindowSum(norm_data, i, n), 2 * n)
        /\ n = 1 => avg_data = norm_data
        /\ Cardinality(Range(norm_data)) = 1 =>
                \A i \in 1..Len(avg_data) : avg_data[i] = norm_data[1]

SmoothedWindowOfThree ==
    /\ pc = "find_local_minima"
    /\ n = 3
    /\ Len(norm_data) = 5
    /\ Cardinality(Range(norm_data)) > 1
    /\ Len(avg_data) = 3

\* the Python indices that are strict interior local minima below the mean
StrictMinima(data) ==
    {i \in 0..(Len(data) - 1) :
        /\ 0 < i /\ i < Len(data) - 1
        /\ Twice(data[i + 1]) < Twice(data[i])
        /\ Twice(data[i + 1]) < Twice(data[i + 2])}

BelowMean(data, i) == Twice(data[i + 1]) * Len(data) < WindowSum(data, 1, Len(data))

\* C6: find_local_minima returns, ascending and without duplicates, exactly
\* the indices i with 0 < i < length-1 whose value is strictly less than
\* both neighbours and strictly less than the mean of the sequence.
MinimaStrictInteriorBelowMean ==
    pc = "find_motif" =>
        /\ Ascending(minima)
        /\ Range(minima) = {i \in StrictMinima(avg_data) : BelowMean(avg_data, i)}
        /\ \A k \in 1..Len(minima) : minima[k] # 0 /\ minima[k] # Len(avg_data) - 1

MinimumDroppedByMean ==
    /\ pc = "find_motif"
    /\ minima # <<>>
    /\ \E i \in StrictMinima(avg_data) : ~BelowMean(avg_data, i)

\* C7: no position i with i - 4 <= 0 is returned by find_motif, even when
\* it is in the minima list and its values are below the threshold.
MotifNeverNearStart ==
    pc = "done" => \A k \in 1..Len(pos) : pos[k] - 4 > 0

NearStartSkipped ==
    /\ pc = "done"
    /\ \E k \in 1..Len(minima) :
            /\ minima[k] = 4
            /\ FLess(avg_data[4], threshold)
            /\ FLess(avg_data[5], threshold)
    /\ pos # <<>>

====
